---- MODULE Spec2Model ----
(***************************************************************************)
(* Model of the Spotify tool execution layer (tools/spotify): the zod      *)
(* schemas, configuration and credential resolution, the request executor, *)
(* the four operation handlers, the AI-SDK tool factories and the MCP      *)
(* adapter.  One invocation is followed from its entry point to its        *)
(* result; invocations share no mutable state, so they are modelled one    *)
(* at a time (Return starts the next one).                                 *)
(***************************************************************************)
EXTENDS Integers, Sequences, FiniteSets, TLC

(***************************************************************************)
(* JavaScript / JSON values.  Every value is a record [t, v]: t is the     *)
(* runtime type, v the payload.  An absent property reads as Undef.        *)
(***************************************************************************)
Undef == [t |-> "undefined", v |-> 0]
Null == [t |-> "null", v |-> 0]
NaN == [t |-> "NaN", v |-> 0]
Num(n) == [t |-> "number", v |-> n]
Str(s) == [t |-> "string", v |-> s]
Bool(b) == [t |-> "boolean", v |-> b]
Obj(f) == [t |-> "object", v |-> f]
Arr(s) == [t |-> "array", v |-> s]
EmptyObj == Obj([k \in {} |-> Undef])

IsNullish(x) == x.t \in {"undefined", "null"}

\* x ?? y
Nullish(x, y) == IF IsNullish(x) THEN y ELSE x

\* x.k on a value that is neither null nor undefined (those throw a TypeError,
\* which the callers test with IsNullish before reading).
Get(x, k) == IF x.t = "object" /\ k \in DOMAIN x.v THEN x.v[k] ELSE Undef

\* x?.k
OptGet(x, k) == IF IsNullish(x) THEN Undef ELSE Get(x, k)

\* Boolean(x)
Truthy(x) ==
  CASE x.t \in {"undefined", "null", "NaN"} -> FALSE
    [] x.t = "number" -> x.v # 0
    [] x.t = "string" -> x.v # ""
    [] x.t = "boolean" -> x.v
    [] OTHER -> TRUE

IsArray(x) == x.t = "array"

(***************************************************************************)
(* Strings.  A string is a TLA+ string; characters are read with SubSeq.    *)
(* The model's strings are drawn from ASCII letters, digits, the space and  *)
(* the punctuation listed in PercentCode.                                   *)
(***************************************************************************)
Ch(s, i) == SubSeq(s, i, i)

Lower == "abcdefghijklmnopqrstuvwxyz"
Upper == "ABCDEFGHIJKLMNOPQRSTUVWXYZ"
Digits == "0123456789"

InStr(c, s) == \E i \in 1..Len(s) : Ch(s, i) = c
IndexIn(c, s) == CHOOSE i \in 1..Len(s) : Ch(s, i) = c

\* The characters of s, as a set.
CharsOf(s) == {Ch(s, i) : i \in 1..Len(s)}
LowerChars == CharsOf(Lower)
UpperChars == CharsOf(Upper)
DigitChars == CharsOf(Digits)

IsAlpha(c) == c \in LowerChars \/ c \in UpperChars
IsDigit(c) == c \in DigitChars
IsSpaceCh(c) == c = " "

RECURSIVE MapChars(_, _)
\* The concatenation of F(c) over the characters c of s.
MapChars(F(_), s) ==
  IF s = "" THEN "" ELSE F(Ch(s, 1)) \o MapChars(F, SubSeq(s, 2, Len(s)))

RECURSIVE TrimStart(_)
TrimStart(s) ==
  IF s # "" /\ IsSpaceCh(Ch(s, 1)) THEN TrimStart(SubSeq(s, 2, Len(s))) ELSE s

RECURSIVE TrimEnd(_)
TrimEnd(s) ==
  IF s # "" /\ IsSpaceCh(Ch(s, Len(s))) THEN TrimEnd(SubSeq(s, 1, Len(s) - 1)) ELSE s

\* String.prototype.trim
Trim(s) == TrimEnd(TrimStart(s))

UpperOf == [c \in LowerChars |-> Ch(Upper, IndexIn(c, Lower))]
UpperCh(c) == IF c \in LowerChars THEN UpperOf[c] ELSE c

\* String.prototype.toUpperCase
ToUpperCase(s) == MapChars(UpperCh, s)

\* The percent-encoding of the reserved ASCII characters the model uses.
PercentCode(c) ==
  CASE c = " " -> "%20"
    [] c = "/" -> "%2F"
    [] c = ":" -> "%3A"
    [] c = "?" -> "%3F"
    [] c = "=" -> "%3D"
    [] c = "&" -> "%26"
    [] c = "%" -> "%25"
    [] c = "+" -> "%2B"
    [] c = "," -> "%2C"
    [] c = "!" -> "%21"
    [] c = "[" -> "%5B"
    [] c = "]" -> "%5D"
    [] OTHER -> c

UriMarks == CharsOf("-_.!~*'()")
UriUnreserved(c) == IsAlpha(c) \/ IsDigit(c) \/ c \in UriMarks
EncodeUriCh(c) == IF UriUnreserved(c) THEN c ELSE PercentCode(c)

\* encodeURIComponent
encodeURIComponent(s) == MapChars(EncodeUriCh, s)

FormMarks == CharsOf("*-._")
FormUnreserved(c) == IsAlpha(c) \/ IsDigit(c) \/ c \in FormMarks
FormEncodeCh(c) ==
  IF FormUnreserved(c) THEN c ELSE IF c = " " THEN "+" ELSE PercentCode(c)

\* The application/x-www-form-urlencoded serialisation of one name or value
\* (URLSearchParams.prototype.toString).
FormEncode(s) == MapChars(FormEncodeCh, s)

DigitOf == [c \in DigitChars |-> IndexIn(c, Digits) - 1]

RECURSIVE DigitsValue(_)
DigitsValue(s) ==
  IF s = "" THEN 0
  ELSE 10 * DigitsValue(SubSeq(s, 1, Len(s) - 1)) + DigitOf[Ch(s, Len(s))]

AllDigits(s) == \A i \in 1..Len(s) : IsDigit(Ch(s, i))

RECURSIVE JoinStrings(_)
JoinStrings(ss) ==
  IF ss = <<>> THEN ""
  ELSE IF Len(ss) = 1 THEN ss[1]
  ELSE ss[1] \o "," \o JoinStrings(Tail(ss))

RECURSIVE ToStr(_)
\* String(x)
ToStr(x) ==
  CASE x.t = "string" -> x.v
    [] x.t = "number" -> ToString(x.v)
    [] x.t = "boolean" -> IF x.v THEN "true" ELSE "false"
    [] x.t = "array" ->
         JoinStrings([i \in 1..Len(x.v) |->
                        IF IsNullish(x.v[i]) THEN "" ELSE ToStr(x.v[i])])
    [] x.t = "object" -> "[object Object]"
    [] OTHER -> x.t

\* Number(s) for a string: white space is trimmed, the empty string is 0, a run
\* of decimal digits is its value and any other text of the model is NaN.
StrToNum(s) ==
  LET u == Trim(s)
  IN IF AllDigits(u) THEN Num(DigitsValue(u)) ELSE NaN

\* Number(x)
ToNum(x) ==
  CASE x.t = "number" -> x
    [] x.t = "string" -> StrToNum(x.v)
    [] x.t = "boolean" -> Num(IF x.v THEN 1 ELSE 0)
    [] x.t = "null" -> Num(0)
    [] x.t = "array" -> StrToNum(ToStr(x))
    [] OTHER -> NaN


(***************************************************************************)
(* zod.  A schema applied to a value gives [st, code, val]: st is "ok",     *)
(* "dirty" (a check failed on a value of the right type: parsing goes on    *)
(* and refinements still run) or "aborted" (the value has the wrong type:   *)
(* the enclosing object is invalid and its refinements do not run); code is *)
(* the issue's code and val the parsed value.                               *)
(***************************************************************************)
Pass(x) == [st |-> "ok", code |-> "", val |-> x]
Dirty(x, c) == [st |-> "dirty", code |-> c, val |-> x]
Abort(x, c) == [st |-> "aborted", code |-> c, val |-> x]

NoLimit == -1

\* z.string().min(lo).max(hi); hi = NoLimit for no maximum.
ZString(x, lo, hi) ==
  IF x.t # "string" THEN Abort(x, "invalid_type")
  ELSE IF Len(x.v) < lo THEN Dirty(x, "too_small")
  ELSE IF hi # NoLimit /\ Len(x.v) > hi THEN Dirty(x, "too_big")
  ELSE Pass(x)

\* z.string().length(n)
ZStringLength(x, n) ==
  IF x.t # "string" THEN Abort(x, "invalid_type")
  ELSE IF Len(x.v) < n THEN Dirty(x, "too_small")
  ELSE IF Len(x.v) > n THEN Dirty(x, "too_big")
  ELSE Pass(x)

\* z.number().int().min(lo).max(hi); hi = NoLimit for no maximum.  The model's
\* numbers are integers; NaN is not a number to zod.
ZInt(x, lo, hi) ==
  IF x.t # "number" THEN Abort(x, "invalid_type")
  ELSE IF x.v < lo THEN Dirty(x, "too_small")
  ELSE IF hi # NoLimit /\ x.v > hi THEN Dirty(x, "too_big")
  ELSE Pass(x)

\* z.boolean()
ZBoolean(x) == IF x.t = "boolean" THEN Pass(x) ELSE Abort(x, "invalid_type")

\* z.boolean() in the place of z.literal(true).
ZLiteralTrueAnyBoolean(x) ==
  IF x.t = "boolean" THEN Pass(x) ELSE Abort(x, "invalid_literal")

\* z.literal(true)
ZLiteralTrue(x) == IF x = Bool(TRUE) THEN Pass(x) ELSE Abort(x, "invalid_literal")

\* new URL(s) succeeds: s (trimmed) starts with a scheme and a colon, and a
\* special scheme is followed by a non-empty host.
SpecialSchemes == {"http", "https", "ws", "wss", "ftp"}
SchemeChar(c) == IsAlpha(c) \/ IsDigit(c) \/ InStr(c, "+-.")
\* The position of the first colon of s, 0 when it has none.
FirstColon(s) ==
  IF ~InStr(":", s) THEN 0
  ELSE CHOOSE i \in 1..Len(s) : Ch(s, i) = ":" /\ \A j \in 1..(i - 1) : Ch(s, j) # ":"

RECURSIVE StripSlashes(_)
StripSlashes(s) ==
  IF s # "" /\ InStr(Ch(s, 1), "/\\") THEN StripSlashes(SubSeq(s, 2, Len(s))) ELSE s

IsUrl(raw) ==
  LET s == Trim(raw)
      e == FirstColon(s)
      rest == StripSlashes(SubSeq(s, e + 1, Len(s)))
  IN /\ e >= 2
     /\ IsAlpha(Ch(s, 1))
     /\ \A i \in 2..(e - 1) : SchemeChar(Ch(s, i))
     /\ SubSeq(s, 1, e - 1) \in SpecialSchemes =>
          rest # "" /\ ~InStr(Ch(rest, 1), ":?# ")

\* z.string() in the place of z.string().url().
ZUrlAnyString(x) == IF x.t # "string" THEN Abort(x, "invalid_type") ELSE Pass(x)

\* z.string().url()
ZUrl(x) ==
  IF x.t # "string" THEN Abort(x, "invalid_type")
  ELSE IF ~IsUrl(x.v) THEN Dirty(x, "invalid_string")
  ELSE Pass(x)

\* The issues of an object's fields, one per failing key, and whether any
\* field aborted.
FieldIssues(r) == {[path |-> k, code |-> r[k].code] : k \in {j \in DOMAIN r : r[j].st # "ok"}}
AnyAborted(r) == \E k \in DOMAIN r : r[k].st = "aborted"
FieldValues(r) == [k \in DOMAIN r |-> r[k].val]

\* safeParse of a z.object: [ok, issues, value].
ParseObject(r) == [ok |-> FieldIssues(r) = {}, issues |-> FieldIssues(r), value |-> FieldValues(r)]

DefaultTokenEnvVar == "SPOTIFY_ACCESS_TOKEN"
DefaultApiBaseUrl == "https://api.spotify.com/v1"

\* x, or d when x is undefined (schema.optional() passes undefined through,
\* schema.default(d) parses d in its place).
OrDefault(x, d) == IF x = Undef THEN d ELSE x

spotifyToolsConfigSchema(config) ==
  ParseObject([
    accessToken |-> IF config.accessToken = Undef THEN Pass(Undef)
                    ELSE ZString(config.accessToken, 0, NoLimit),
    tokenEnvVar |-> ZString(OrDefault(config.tokenEnvVar, Str(DefaultTokenEnvVar)), 0, NoLimit),
    apiBaseUrl |-> ZUrl(OrDefault(config.apiBaseUrl, Str(DefaultApiBaseUrl))),
    defaultUserId |-> IF config.defaultUserId = Undef THEN Pass(Undef)
                      ELSE ZString(config.defaultUserId, 0, NoLimit)])

spotifyGetMeInputSchema(input) == [ok |-> TRUE, issues |-> {}, value |-> input]

QueryMinLen == 1
LimitMin == 1
LimitMax == 50
SearchLimitDefault == 10
ListLimitDefault == 20
OffsetMin == 0
OffsetDefault == 0
MarketLen == 2

spotifySearchTracksInputSchema(input) ==
  ParseObject([
    query |-> ZString(input.query, QueryMinLen, NoLimit),
    limit |-> ZInt(OrDefault(input.limit, Num(SearchLimitDefault)), LimitMin, LimitMax),
    offset |-> ZInt(OrDefault(input.offset, Num(OffsetDefault)), OffsetMin, NoLimit),
    market |-> IF input.market = Undef THEN Pass(Undef)
               ELSE ZStringLength(input.market, MarketLen)])

spotifyListMyPlaylistsInputSchema(input) ==
  ParseObject([
    limit |-> ZInt(OrDefault(input.limit, Num(ListLimitDefault)), LimitMin, LimitMax),
    offset |-> ZInt(OrDefault(input.offset, Num(OffsetDefault)), OffsetMin, NoLimit)])

UserIdMinLen == 1
NameMinLen == 1
NameMaxLen == 100
DescriptionMaxLen == 300

\* The fields of the create-playlist object schema, before the refinement.
CreatePlaylistFields(input) ==
  [userId |-> IF input.userId = Undef THEN Pass(Undef)
              ELSE ZString(input.userId, UserIdMinLen, NoLimit),
   name |-> ZString(input.name, NameMinLen, NameMaxLen),
   description |-> IF input.description = Undef THEN Pass(Undef)
                   ELSE ZString(input.description, 0, DescriptionMaxLen),
   public |-> ZBoolean(OrDefault(input.public, Bool(FALSE))),
   collaborative |-> ZBoolean(OrDefault(input.collaborative, Bool(FALSE))),
   confirm |-> ZLiteralTrue(input.confirm)]

\* The refinement with || in the place of &&.
CreatePlaylistRefinementEither(value) == ~(value.public.v \/ value.collaborative.v)

\* The predicate handed to .refine: the parsed value is acceptable.
CreatePlaylistRefinement(value) == ~(value.public.v /\ value.collaborative.v)

\* Whether .refine runs its predicate: not when a field of the object aborted.
RefinementRuns(r) == ~AnyAborted(r)

spotifyCreatePlaylistInputSchema(input) ==
  LET r == CreatePlaylistFields(input)
      refined == IF RefinementRuns(r) /\ ~CreatePlaylistRefinement(FieldValues(r))
                 THEN {[path |-> "collaborative", code |-> "custom"]}
                 ELSE {}
      issues == FieldIssues(r) \cup refined
  IN [ok |-> issues = {}, issues |-> issues, value |-> FieldValues(r)]


(***************************************************************************)
(* Errors and promise results.                                              *)
(***************************************************************************)
Err(n, m) == [name |-> n, message |-> m, issues |-> {}]
ZodError(issues) == [name |-> "ZodError", message |-> "", issues |-> issues]
NoError == Err("", "")

Pending == [status |-> "pending", value |-> Undef, error |-> NoError]
Fulfilled(x) == [status |-> "fulfilled", value |-> x, error |-> NoError]
Rejected(e) == [status |-> "rejected", value |-> Undef, error |-> e]

(***************************************************************************)
(* Credential resolution.                                                   *)
(***************************************************************************)
\* process.env[name]
EnvLookup(env, name) == IF name \in DOMAIN env THEN env[name] ELSE Undef

\* s?.trim()
OptTrim(x) == IF IsNullish(x) THEN Undef ELSE Str(Trim(x.v))

\* a || b
OrElse(a, b) == IF Truthy(a) THEN a ELSE b

\* resolveAccessToken with the environment entry before the explicit token.
resolveAccessTokenEnvFirst(runtime, env) ==
  LET explicit == OptTrim(runtime.accessToken)
      fromEnv == OptTrim(EnvLookup(env, runtime.tokenEnvVar.v))
      token == OrElse(fromEnv, OrElse(explicit, Undef))
  IN IF ~Truthy(token)
     THEN [ok |-> FALSE, token |-> Undef,
           error |-> Err("Error", "Missing Spotify access token. Pass accessToken in config or set "
                                  \o runtime.tokenEnvVar.v \o ".")]
     ELSE [ok |-> TRUE, token |-> token, error |-> NoError]

\* [ok, token, error]: the token, or the error thrown.
resolveAccessToken(runtime, env) ==
  LET explicit == OptTrim(runtime.accessToken)
      fromEnv == OptTrim(EnvLookup(env, runtime.tokenEnvVar.v))
      token == OrElse(explicit, OrElse(fromEnv, Undef))
  IN IF ~Truthy(token)
     THEN [ok |-> FALSE, token |-> Undef,
           error |-> Err("Error", "Missing Spotify access token. Pass accessToken in config or set "
                                  \o runtime.tokenEnvVar.v \o ".")]
     ELSE [ok |-> TRUE, token |-> token, error |-> NoError]

(***************************************************************************)
(* The request executor.                                                    *)
(***************************************************************************)
\* The fetch call of requestSpotify.
FetchCall(runtime, token, method, path, body) ==
  [method |-> method,
   url |-> runtime.apiBaseUrl.v \o path,
   path |-> path,
   authorization |-> "Bearer " \o token.v,
   accept |-> "application/json",
   contentType |-> IF body = Undef THEN "" ELSE "application/json",
   body |-> body]

\* A response: its status, its body as text and as JSON (NotJson when the body
\* does not parse).
NotJson == [t |-> "invalid", v |-> 0]
Response(status, text, json) == [status |-> status, text |-> text, json |-> json]

OkStatusMin == 200
OkStatusMax == 299
DetailMax == 400

\* response.ok
ResponseOk(resp) == resp.status >= OkStatusMin /\ resp.status <= OkStatusMax

\* detail.slice(0, 400)
Slice0(s, n) == SubSeq(s, 1, IF Len(s) < n THEN Len(s) ELSE n)

\* What requestSpotify gives once the response is in: [ok, json, error].
requestSpotify(resp) ==
  IF ~ResponseOk(resp)
  THEN [ok |-> FALSE, json |-> Undef,
        error |-> Err("Error", "Spotify API request failed (" \o ToString(resp.status)
                               \o "): " \o Slice0(resp.text, DetailMax))]
  ELSE IF resp.json = NotJson
  THEN [ok |-> FALSE, json |-> Undef, error |-> Err("SyntaxError", "Unexpected end of JSON input")]
  ELSE [ok |-> TRUE, json |-> resp.json, error |-> NoError]

\* params.toString() of searchTracksParams(input)
searchTracksParams(input) ==
  "q=" \o FormEncode(ToStr(input.query)) \o "&type=track"
  \o "&limit=" \o FormEncode(ToStr(input.limit))
  \o "&offset=" \o FormEncode(ToStr(input.offset))
  \o (IF Truthy(input.market)
      THEN "&market=" \o FormEncode(ToUpperCase(ToStr(input.market)))
      ELSE "")

\* params.toString() of listPlaylistsParams(input)
listPlaylistsParams(input) ==
  "limit=" \o FormEncode(ToStr(input.limit)) \o "&offset=" \o FormEncode(ToStr(input.offset))

(***************************************************************************)
(* Response mapping.  Each Map* gives [ok, value]: the handler's output, or *)
(* ok = FALSE when reading the payload throws a TypeError (a property read  *)
(* of null or undefined that the code does not guard).                      *)
(***************************************************************************)
TypeError == Err("TypeError", "Cannot read properties of null")
Threw == [ok |-> FALSE, value |-> Undef]
Mapped(x) == [ok |-> TRUE, value |-> x]

\* x ? String(x) : null
StrOrNull(x) == IF Truthy(x) THEN Str(ToStr(x)) ELSE Null

\* x === null ? null : Boolean(x)
BoolOrNull(x) == IF x = Null THEN Null ELSE Bool(Truthy(x))

\* The unguarded property reads of a handler on x (x.id, x.name, ...) throw.
Unreadable(x) == IsNullish(x)

MapGetMe(payload) ==
  IF Unreadable(payload) THEN Threw
  ELSE Mapped([
    id |-> Str(ToStr(Nullish(Get(payload, "id"), Str("")))),
    displayName |-> StrOrNull(Get(payload, "display_name")),
    email |-> StrOrNull(Get(payload, "email")),
    country |-> StrOrNull(Get(payload, "country")),
    product |-> StrOrNull(Get(payload, "product")),
    followers |-> ToNum(Nullish(OptGet(Get(payload, "followers"), "total"), Num(0))),
    uri |-> StrOrNull(Get(payload, "uri"))])

\* The items of an array value whose elements satisfy P, in order.
FilterSeq(s, P(_)) == SelectSeq(s, P)

ArtistName(artist) == StrOrNull(OptGet(artist, "name"))

MapArtists(artists) ==
  IF IsArray(artists)
  THEN FilterSeq([i \in 1..Len(artists.v) |-> ArtistName(artists.v[i])], Truthy)
  ELSE <<>>

MapTrack(track) ==
  [id |-> Str(ToStr(Nullish(Get(track, "id"), Str("")))),
   name |-> Str(ToStr(Nullish(Get(track, "name"), Str("")))),
   artists |-> MapArtists(Get(track, "artists")),
   album |-> StrOrNull(OptGet(Get(track, "album"), "name")),
   durationMs |-> ToNum(Nullish(Get(track, "duration_ms"), Num(0))),
   popularity |-> ToNum(Nullish(Get(track, "popularity"), Num(0))),
   uri |-> Str(ToStr(Nullish(Get(track, "uri"), Str("")))),
   externalUrl |-> StrOrNull(OptGet(Get(track, "external_urls"), "spotify"))]

\* Array.isArray(x) ? x : []
ItemsOf(x) == IF IsArray(x) THEN x.v ELSE <<>>

\* The fallback to the schema's default in the place of the request's value.
SearchPageFallbackDefault(input, field) ==
  IF field = "limit" THEN Num(SearchLimitDefault) ELSE Num(OffsetDefault)

\* The request value a page field falls back to.
SearchPageFallback(input, field) == input[field]

MapSearchTracks(payload, input) ==
  IF Unreadable(payload) THEN Threw
  ELSE LET tracks == Get(payload, "tracks")
           items == ItemsOf(OptGet(tracks, "items"))
       IN IF \E i \in 1..Len(items) : Unreadable(items[i]) THEN Threw
          ELSE Mapped([
            total |-> ToNum(Nullish(OptGet(tracks, "total"), Num(Len(items)))),
            limit |-> ToNum(Nullish(OptGet(tracks, "limit"), SearchPageFallback(input, "limit"))),
            offset |-> ToNum(Nullish(OptGet(tracks, "offset"), SearchPageFallback(input, "offset"))),
            tracks |-> [i \in 1..Len(items) |-> MapTrack(items[i])]])

MapPlaylist(playlist) ==
  [id |-> Str(ToStr(Nullish(Get(playlist, "id"), Str("")))),
   name |-> Str(ToStr(Nullish(Get(playlist, "name"), Str("")))),
   description |-> StrOrNull(Get(playlist, "description")),
   public |-> BoolOrNull(Get(playlist, "public")),
   collaborative |-> Bool(Truthy(Get(playlist, "collaborative"))),
   ownerId |-> StrOrNull(OptGet(Get(playlist, "owner"), "id")),
   tracksTotal |-> ToNum(Nullish(OptGet(Get(playlist, "tracks"), "total"), Num(0))),
   snapshotId |-> StrOrNull(Get(playlist, "snapshot_id")),
   externalUrl |-> StrOrNull(OptGet(Get(playlist, "external_urls"), "spotify"))]

\* The request value a page field falls back to.
ListPageFallback(input, field) == input[field]

MapListMyPlaylists(payload, input) ==
  IF Unreadable(payload) THEN Threw
  ELSE LET items == ItemsOf(Get(payload, "items"))
       IN IF \E i \in 1..Len(items) : Unreadable(items[i]) THEN Threw
          ELSE Mapped([
            total |-> ToNum(Nullish(Get(payload, "total"), Num(Len(items)))),
            limit |-> ToNum(Nullish(Get(payload, "limit"), ListPageFallback(input, "limit"))),
            offset |-> ToNum(Nullish(Get(payload, "offset"), ListPageFallback(input, "offset"))),
            playlists |-> [i \in 1..Len(items) |-> MapPlaylist(items[i])]])

MapCreatePlaylist(payload) ==
  IF Unreadable(payload) THEN Threw
  ELSE Mapped([
    id |-> Str(ToStr(Nullish(Get(payload, "id"), Str("")))),
    name |-> Str(ToStr(Nullish(Get(payload, "name"), Str("")))),
    public |-> BoolOrNull(Get(payload, "public")),
    collaborative |-> Bool(Truthy(Get(payload, "collaborative"))),
    description |-> StrOrNull(Get(payload, "description")),
    snapshotId |-> StrOrNull(Get(payload, "snapshot_id")),
    externalUrl |-> StrOrNull(OptGet(Get(payload, "external_urls"), "spotify")),
    ownerId |-> StrOrNull(OptGet(Get(payload, "owner"), "id"))])


(***************************************************************************)
(* The state of one invocation.                                             *)
(***************************************************************************)
VARIABLES
  env,      \* process.env, as far as the token variables go
  pc,       \* "idle", "ready" (a tool was built), "me" (awaiting GET /me in
            \* resolveUserId), "main" (awaiting the handler's own request),
            \* "done" (resolved), "failed" (threw or rejected)
  via,      \* "tool" (createSpotify*Tool), "execute" (executeSpotify*), "mcp"
  tool,     \* the operation's name
  config,   \* the caller's SpotifyToolsConfig
  runtime,  \* the parsed configuration
  args,     \* the input the caller passed
  input,    \* the input the handler received
  token,    \* the resolved access token
  reqs,     \* the fetch calls issued so far, in order
  resps,    \* the responses received so far, in order
  result    \* the promise's state

vars == <<env, pc, via, tool, config, runtime, args, input, token, reqs, resps, result>>

GetMe == "spotify_get_me"
SearchTracks == "spotify_search_tracks"
ListMyPlaylists == "spotify_list_my_playlists"
CreatePlaylist == "spotify_create_playlist"
Tools == {GetMe, SearchTracks, ListMyPlaylists, CreatePlaylist}

Config(a, e, u, d) == [accessToken |-> a, tokenEnvVar |-> e, apiBaseUrl |-> u, defaultUserId |-> d]
EmptyConfig == Config(Undef, Undef, Undef, Undef)
EmptyInput == [k \in {} |-> Undef]

\* inputSchema of a tool, applied to an input.
InputSchema(t, a) ==
  CASE t = GetMe -> spotifyGetMeInputSchema(a)
    [] t = SearchTracks -> spotifySearchTracksInputSchema(a)
    [] t = ListMyPlaylists -> spotifyListMyPlaylistsInputSchema(a)
    [] t = CreatePlaylist -> spotifyCreatePlaylistInputSchema(a)

\* if (runtime.defaultUserId) return runtime.defaultUserId
HasDefaultUserId(rt) == Truthy(rt.defaultUserId)

\* resolveUserId without its defaultUserId shortcut.
NeedsMeIgnoringDefault(in, rt) == IsNullish(in.userId)

\* Whether run-create-playlist has to await GET /me: input.userId is null or
\* undefined and resolveUserId finds no default.
NeedsMe(in, rt) == IsNullish(in.userId) /\ ~HasDefaultUserId(rt)

\* The configured default before the input's userId.
LocalUserIdDefaultFirst(in, rt) == IF HasDefaultUserId(rt) THEN rt.defaultUserId ELSE in.userId

\* The account id run-create-playlist has without a request.
LocalUserId(in, rt) == Nullish(in.userId, rt.defaultUserId)

\* resolveUserId without its check of me.id.
MeHasIdUnchecked(me) == TRUE

\* if (!me?.id) throw
MeHasId(me) == Truthy(OptGet(me, "id"))

UserResolutionError == Err("Error", "Failed to resolve authenticated Spotify user id from /me endpoint.")

\* The POST of runSpotifyCreatePlaylist for an account id.
CreatePlaylistCall(rt, tok, in, userId) ==
  FetchCall(rt, tok, "POST", "/users/" \o encodeURIComponent(ToStr(userId)) \o "/playlists",
            [name |-> in.name, description |-> in.description,
             public |-> in.public, collaborative |-> in.collaborative])

\* The first fetch call of a handler, token in hand.
FirstCall(t, in, rt, tok) ==
  CASE t = GetMe -> FetchCall(rt, tok, "GET", "/me", Undef)
    [] t = SearchTracks -> FetchCall(rt, tok, "GET", "/search?" \o searchTracksParams(in), Undef)
    [] t = ListMyPlaylists ->
         FetchCall(rt, tok, "GET", "/me/playlists?" \o listPlaylistsParams(in), Undef)
    [] t = CreatePlaylist ->
         IF NeedsMe(in, rt) THEN FetchCall(rt, tok, "GET", "/me", Undef)
         ELSE CreatePlaylistCall(rt, tok, in, LocalUserId(in, rt))

\* A handler (runSpotify*) up to its first await: [pc, token, reqs, result].
RunStart(t, in, rt, e) ==
  LET tok == resolveAccessToken(rt, e)
  IN IF ~tok.ok
     THEN [pc |-> "failed", token |-> Undef, reqs |-> <<>>, result |-> Rejected(tok.error)]
     ELSE [pc |-> IF t = CreatePlaylist /\ NeedsMe(in, rt) THEN "me" ELSE "main",
           token |-> tok.token,
           reqs |-> <<FirstCall(t, in, rt, tok.token)>>,
           result |-> Pending]

\* The handler's mapping of its response.
MapFor(t, payload, in) ==
  CASE t = GetMe -> MapGetMe(payload)
    [] t = SearchTracks -> MapSearchTracks(payload, in)
    [] t = ListMyPlaylists -> MapListMyPlaylists(payload, in)
    [] t = CreatePlaylist -> MapCreatePlaylist(payload)

(***************************************************************************)
(* Operations.                                                              *)
(***************************************************************************)
\* A handler or factory that threw e before any request.
Thrown(e) == [pc |-> "failed", token |-> Undef, reqs |-> <<>>, result |-> Rejected(e)]

\* createSpotify*Tool(config): the configuration is parsed when the tool is built.
CreateTool(t, c) ==
  /\ pc = "idle"
  /\ \E parsed \in {spotifyToolsConfigSchema(c)} :
       /\ via' = "tool"
       /\ tool' = t
       /\ config' = c
       /\ runtime' = IF parsed.ok THEN parsed.value ELSE runtime
       /\ pc' = IF parsed.ok THEN "ready" ELSE "failed"
       /\ result' = IF parsed.ok THEN Pending ELSE Rejected(ZodError(parsed.issues))
  /\ UNCHANGED <<env, args, input, token, reqs, resps>>

\* The agent framework calls a built tool: the input is parsed with the tool's
\* inputSchema, and execute runs the handler on the parsed value.
CallTool(a) ==
  /\ pc = "ready"
  /\ \E parsed \in {InputSchema(tool, a)} :
       \E run \in {IF parsed.ok THEN RunStart(tool, parsed.value, runtime, env)
                   ELSE Thrown(ZodError(parsed.issues))} :
         /\ args' = a
         /\ input' = IF parsed.ok THEN parsed.value ELSE input
         /\ pc' = run.pc
         /\ token' = run.token
         /\ reqs' = run.reqs
         /\ result' = run.result
  /\ UNCHANGED <<env, via, tool, config, runtime, resps>>

\* executeSpotify*(input, config): the configuration is parsed, and the handler
\* runs on the input as passed.
ExecuteVia(v, t, a, c) ==
  /\ pc = "idle"
  /\ \E parsed \in {spotifyToolsConfigSchema(c)} :
       \E run \in {IF parsed.ok THEN RunStart(t, a, parsed.value, env)
                   ELSE Thrown(ZodError(parsed.issues))} :
         /\ via' = v
         /\ tool' = t
         /\ config' = c
         /\ args' = a
         /\ runtime' = IF parsed.ok THEN parsed.value ELSE runtime
         /\ input' = IF parsed.ok THEN a ELSE input
         /\ pc' = run.pc
         /\ token' = run.token
         /\ reqs' = run.reqs
         /\ result' = run.result
  /\ UNCHANGED <<env, resps>>

Execute(t, a, c) == ExecuteVia("execute", t, a, c)

\* createSpotifyMcpTools(config)[t].execute(input)
McpExecute(t, a, c) == ExecuteVia("mcp", t, a, c)

\* The response to resolveUserId's GET /me arrives.
RespondMe(resp) ==
  /\ pc = "me"
  /\ \E r \in {requestSpotify(resp)} :
       \E found \in {r.ok /\ MeHasId(r.json)} :
         /\ resps' = Append(resps, resp)
         /\ pc' = IF found THEN "main" ELSE "failed"
         /\ reqs' = IF found
                    THEN Append(reqs, CreatePlaylistCall(runtime, token, input, Get(r.json, "id")))
                    ELSE reqs
         /\ result' = IF found THEN result
                      ELSE IF r.ok THEN Rejected(UserResolutionError)
                      ELSE Rejected(r.error)
  /\ UNCHANGED <<env, via, tool, config, runtime, args, input, token>>

\* The response to the handler's own request arrives and is mapped.
RespondMain(resp) ==
  /\ pc = "main"
  /\ \E r \in {requestSpotify(resp)} :
       \E m \in {IF r.ok THEN MapFor(tool, r.json, input) ELSE Threw} :
         /\ resps' = Append(resps, resp)
         /\ pc' = IF r.ok /\ m.ok THEN "done" ELSE "failed"
         /\ result' = IF ~r.ok THEN Rejected(r.error)
                      ELSE IF ~m.ok THEN Rejected(TypeError)
                      ELSE Fulfilled(m.value)
  /\ UNCHANGED <<env, via, tool, config, runtime, args, input, token, reqs>>

\* The caller has the result; nothing of the invocation is kept.
Return ==
  /\ pc \in {"done", "failed"}
  /\ pc' = "idle"
  /\ via' = ""
  /\ tool' = ""
  /\ config' = EmptyConfig
  /\ runtime' = EmptyConfig
  /\ args' = EmptyInput
  /\ input' = EmptyInput
  /\ token' = Undef
  /\ reqs' = <<>>
  /\ resps' = <<>>
  /\ result' = Pending
  /\ UNCHANGED env

\* No invocation in progress, with the environment e.
Idle(e) ==
  /\ env = e
  /\ pc = "idle"
  /\ via = ""
  /\ tool = ""
  /\ config = EmptyConfig
  /\ runtime = EmptyConfig
  /\ args = EmptyInput
  /\ input = EmptyInput
  /\ token = Undef
  /\ reqs = <<>>
  /\ resps = <<>>
  /\ result = Pending


(***************************************************************************)
(* The inputs the model draws: configurations, environments, tool inputs    *)
(* and the remote API's responses.                                          *)
(***************************************************************************)
MaxItems == 2
MaxOffset == 2
MaxPad == 1

RECURSIVE Rep(_, _)
\* The string of n copies of c.
Rep(c, n) ==
  IF n = 0 THEN ""
  ELSE LET half == Rep(c, n \div 2)
       IN half \o half \o (IF n % 2 = 1 THEN c ELSE "")

\* The sequences over S of length at most n.
SeqsUpTo(S, n) == UNION {[1..k -> S] : k \in 0..n}

MalformedUrls == {"not-a-url", "", "/v1", "api.spotify.com/v1", "http://"}

Configs ==
  {Config(a, Undef, u, d) :
     a \in {Undef, Str(" tok ")},
     u \in {Undef, Str("http://localhost:8080")} \cup {Str(m) : m \in MalformedUrls},
     d \in {Undef, Str(""), Str("d 1")}}

Envs == {[SPOTIFY_ACCESS_TOKEN |-> x] : x \in {Undef, Str("envtok")}}

SearchInput(q, l, o, m) == [query |-> q, limit |-> l, offset |-> o, market |-> m]
ListInput(l, o) == [limit |-> l, offset |-> o]
CreateInput(u, n, d, p, c, k) ==
  [userId |-> u, name |-> n, description |-> d, public |-> p, collaborative |-> c, confirm |-> k]

SearchInputs ==
  {SearchInput(Str("a b"), Undef, Undef, Undef),
   SearchInput(Str("a b"), Num(LimitMin), Num(OffsetMin), Str("us")),
   SearchInput(Str("q"), Num(LimitMax), Num(MaxOffset), Undef),
   SearchInput(Str(""), Num(LimitMin), Num(OffsetMin), Undef),
   SearchInput(Str("q"), Num(LimitMax + 1), Num(OffsetMin), Undef),
   SearchInput(Str("q"), Num(LimitMin - 1), Num(OffsetMin - 1), Str("usa"))}

ListInputs ==
  {ListInput(Undef, Undef),
   ListInput(Num(LimitMin), Num(MaxOffset)),
   ListInput(Num(LimitMax), Num(OffsetMin)),
   ListInput(Num(LimitMin - 1), Num(OffsetMin))}

CreateInputs ==
  {CreateInput(u, Str("x"), Undef, p, c, k) :
     u \in {Undef, Str("u/1")},
     p \in {Undef, Bool(TRUE)},
     c \in {Undef, Bool(TRUE)},
     k \in {Undef, Bool(FALSE), Bool(TRUE)}}

Inputs(t) ==
  CASE t = GetMe -> {EmptyInput}
    [] t = SearchTracks -> SearchInputs
    [] t = ListMyPlaylists -> ListInputs
    [] t = CreatePlaylist -> CreateInputs
    [] OTHER -> {}

ProfileFull ==
  Obj([id |-> Str("u1"), display_name |-> Str("Ann"), email |-> Str("a@x"),
       country |-> Str("SE"), product |-> Str("premium"),
       followers |-> Obj([total |-> Num(5)]), uri |-> Str("spotify:user:u1")])

MeBodies ==
  {Null, Num(7), EmptyObj, ProfileFull,
   Obj([id |-> Num(42)]), Obj([id |-> Str("")]), Obj([id |-> Null]),
   Obj([id |-> Str("u 1"), followers |-> Null, display_name |-> Null]),
   Obj([id |-> Str("u2"), followers |-> Str("many"), email |-> Num(0)])}

TrackFull ==
  Obj([id |-> Str("t1"), name |-> Str("Song"),
       artists |-> Arr(<<Obj([name |-> Str("Artist")])>>),
       album |-> Obj([name |-> Str("Album")]),
       duration_ms |-> Num(1000), popularity |-> Num(50),
       uri |-> Str("spotify:track:t1"),
       external_urls |-> Obj([spotify |-> Str("https://x")])])

TrackOdd ==
  Obj([id |-> Num(9), name |-> Null,
       artists |-> Arr(<<Null, Obj([name |-> Str("A")]), Obj([name |-> Null]), Str("x")>>),
       album |-> Str("Album"), duration_ms |-> Str("12"), popularity |-> Str("high"),
       external_urls |-> Null])

TrackItems == {Null, EmptyObj, TrackFull, TrackOdd}

SearchBodies ==
  {Null, Num(7), EmptyObj,
   Obj([tracks |-> Null]), Obj([tracks |-> Str("x")]),
   Obj([tracks |-> Obj([items |-> Str("x")])]),
   Obj([tracks |-> Obj([items |-> Arr(<<TrackFull>>), total |-> Num(1), limit |-> Num(5),
                        offset |-> Num(1)])]),
   Obj([tracks |-> Obj([items |-> Arr(<<>>), total |-> Str("abc"), limit |-> Null,
                        offset |-> Str("x")])])}
  \cup {Obj([tracks |-> Obj([total |-> Num(1), items |-> Arr(s)])]) :
          s \in SeqsUpTo(TrackItems, MaxItems)}

PlaylistFull ==
  Obj([id |-> Str("p1"), name |-> Str("Mix"), description |-> Str("d"),
       public |-> Bool(TRUE), collaborative |-> Bool(FALSE),
       owner |-> Obj([id |-> Str("u1")]), tracks |-> Obj([total |-> Num(3)]),
       snapshot_id |-> Str("s1"),
       external_urls |-> Obj([spotify |-> Str("https://p")])])

PlaylistOdd ==
  Obj([id |-> Null, public |-> Null, collaborative |-> Str("yes"), owner |-> Null,
       tracks |-> Num(3), description |-> Str("")])

PlaylistItems == {Null, EmptyObj, PlaylistFull, PlaylistOdd}

ListBodies ==
  {Null, Str("x"), EmptyObj,
   Obj([items |-> Null]), Obj([items |-> Str("x")]),
   Obj([items |-> Arr(<<PlaylistFull>>), total |-> Num(1), limit |-> Num(5), offset |-> Num(1)]),
   Obj([items |-> Arr(<<>>), total |-> Null, limit |-> Null, offset |-> Str("x")])}
  \cup {Obj([total |-> Num(1), items |-> Arr(s)]) : s \in SeqsUpTo(PlaylistItems, MaxItems)}

CreateBodies == {Null, EmptyObj, PlaylistFull, PlaylistOdd}

\* The responses that do not depend on the endpoint: errors, and a success
\* whose body is not JSON.
PlainResponses ==
  {Response(401, "denied", NotJson),
   Response(500, Rep("e", DetailMax + 1), NotJson),
   Response(200, "", NotJson)}

JsonResponses(status, bodies) == {Response(status, "", b) : b \in bodies}

MeResponses == PlainResponses \cup JsonResponses(200, MeBodies)
SearchResponses == PlainResponses \cup JsonResponses(200, SearchBodies)
ListResponses == PlainResponses \cup JsonResponses(200, ListBodies)
CreateResponses == PlainResponses \cup JsonResponses(201, CreateBodies)

MainResponses(t) ==
  CASE t = GetMe -> MeResponses
    [] t = SearchTracks -> SearchResponses
    [] t = ListMyPlaylists -> ListResponses
    [] t = CreatePlaylist -> CreateResponses
    [] OTHER -> {}

(***************************************************************************)
(* Spec: every entry point, every tool.                                     *)
(***************************************************************************)
Init == \E e \in Envs : Idle(e)

Next ==
  \/ \E t \in Tools, c \in Configs : CreateTool(t, c)
  \/ \E a \in Inputs(tool) : CallTool(a)
  \/ \E t \in Tools, c \in Configs : \E a \in Inputs(t) : Execute(t, a, c)
  \/ \E t \in Tools, c \in Configs : \E a \in Inputs(t) : McpExecute(t, a, c)
  \/ \E r \in MeResponses : RespondMe(r)
  \/ \E r \in MainResponses(tool) : RespondMain(r)
  \/ Return

Spec == Init /\ [][Next]_vars

(***************************************************************************)
(* Properties of Spec.                                                      *)
(***************************************************************************)
IsPost(req) == req.method = "POST"
PostIssued == \E i \in 1..Len(reqs) : IsPost(reqs[i])
Started == pc \notin {"idle", "ready"}

\* The path of the playlists collection of an account id, as the handler
\* writes it.
UsersPath(id) == "/users/" \o encodeURIComponent(ToStr(id)) \o "/playlists"

\* C1 (as claimed): whichever way spotify_create_playlist is invoked, a POST is
\* issued only if the caller's input has confirm literally true.
C1_PostOnlyIfConfirmed ==
  (tool = CreatePlaylist /\ PostIssued) => args.confirm = Bool(TRUE)

\* The part of C1 the code keeps: a tool built by createSpotifyCreatePlaylistTool
\* and called through its inputSchema posts only for confirm = true.
C1_ToolPathGuarded ==
  (tool = CreatePlaylist /\ via = "tool" /\ PostIssued) => args.confirm = Bool(TRUE)

\* C5 (as claimed): the POST path carries the input userId when one is given;
\* otherwise, for every runtime configuration, GET /me is called first and the
\* POST targets the id /me returned.
C5_UserIdOrMe ==
  (tool = CreatePlaylist /\ PostIssued) =>
     IF ~IsNullish(input.userId)
     THEN Len(reqs) = 1 /\ reqs[1].path = UsersPath(input.userId)
     ELSE /\ Len(reqs) = 2
          /\ reqs[1].method = "GET" /\ reqs[1].path = "/me"
          /\ IsPost(reqs[2])
          /\ reqs[2].path = UsersPath(Get(resps[1].json, "id"))

\* C5 (amended): the POST path is /users/{encodeURIComponent(String(id))}/playlists
\* where id is the input userId when one is given; otherwise the configured
\* defaultUserId when that is a non-empty string, and then GET /me is not
\* called; otherwise GET /me is called first and id is the id it returned.
C5_UserIdDefaultOrMe ==
  (tool = CreatePlaylist /\ PostIssued) =>
     IF ~IsNullish(input.userId)
     THEN Len(reqs) = 1 /\ IsPost(reqs[1]) /\ reqs[1].path = UsersPath(input.userId)
     ELSE IF config.defaultUserId.t = "string" /\ config.defaultUserId.v # ""
     THEN Len(reqs) = 1 /\ IsPost(reqs[1]) /\ reqs[1].path = UsersPath(config.defaultUserId)
     ELSE /\ Len(reqs) = 2
          /\ reqs[1].method = "GET" /\ reqs[1].path = "/me"
          /\ ResponseOk(resps[1])
          /\ IsPost(reqs[2])
          /\ reqs[2].path = UsersPath(Get(resps[1].json, "id"))

\* C5's case: no userId, no default, /me answered {id: "u1", ...} and the POST
\* went to /users/u1/playlists.
C5_Witness ==
  /\ tool = CreatePlaylist
  /\ Len(reqs) = 2
  /\ IsNullish(input.userId)
  /\ resps[1].json = ProfileFull
  /\ reqs[2].path = "/users/u1/playlists"

\* C7: with a malformed apiBaseUrl the configuration is rejected and no request
\* is issued, whichever entry point is used.
C7_MalformedUrlNoRequest ==
  (Started /\ config.apiBaseUrl.t = "string" /\ config.apiBaseUrl.v \in MalformedUrls) =>
     /\ pc = "failed"
     /\ reqs = <<>>
     /\ resps = <<>>
     /\ result.status = "rejected"
     /\ result.error.name = "ZodError"
     /\ \E i \in result.error.issues : i.path = "apiBaseUrl"

\* C7 witness: an invocation with a malformed apiBaseUrl was rejected by the
\* configuration schema before any request.
C7_Witness ==
  /\ pc = "failed"
  /\ via = "mcp"
  /\ tool = CreatePlaylist
  /\ config.apiBaseUrl = Str("not-a-url")
  /\ args.confirm = Bool(TRUE)

\* C8: an invocation issues at most one request, or two for create-playlist when
\* the account id has to be resolved (GET /me, then the POST); a request is
\* issued only once the one before it was answered, and none after a response
\* that is not 2xx.
C8_RequestBudget ==
  /\ Len(reqs) <= 2
  /\ Len(resps) <= Len(reqs)
  /\ Len(reqs) <= Len(resps) + 1
  /\ Len(reqs) = 2 =>
       /\ tool = CreatePlaylist
       /\ IsNullish(input.userId)
       /\ ~Truthy(runtime.defaultUserId)
       /\ reqs[1].method = "GET" /\ reqs[1].path = "/me"
       /\ IsPost(reqs[2])
       /\ ResponseOk(resps[1])
  /\ \A i \in 1..Len(resps) :
       ~ResponseOk(resps[i]) => i = Len(resps) /\ Len(reqs) = i /\ pc = "failed"

\* C8 witness: a create-playlist invocation issued its two requests, GET /me and
\* then the POST; the POST was answered with a status that is not 2xx and the
\* invocation ended there, with no third request.
C8_Witness ==
  /\ Len(reqs) = 2
  /\ Len(resps) = 2
  /\ ~ResponseOk(resps[2])
  /\ pc = "failed"

\* The caller configured no token and the environment holds none.
NoCredential == config.accessToken = Undef /\ env.SPOTIFY_ACCESS_TOKEN = Undef
MissingTokenError ==
  Err("Error", "Missing Spotify access token. Pass accessToken in config or set SPOTIFY_ACCESS_TOKEN.")

\* C9: in a create-playlist invocation, when no credential is found, when GET /me
\* is answered with a status that is not 2xx, or when its answer carries no id,
\* the invocation is rejected with that failure and no POST is issued.
C9_FailedResolutionNoPost ==
  tool = CreatePlaylist =>
    /\ (Started /\ NoCredential) =>
         /\ pc = "failed" /\ reqs = <<>> /\ result.status = "rejected"
         /\ result.error.name # "ZodError" => result.error = MissingTokenError
    /\ (Len(resps) >= 1 /\ reqs[1].path = "/me" /\ ~ResponseOk(resps[1])) =>
         /\ pc = "failed" /\ ~PostIssued /\ result.status = "rejected"
         /\ result.error = requestSpotify(resps[1]).error
    /\ (Len(resps) >= 1 /\ reqs[1].path = "/me" /\ ResponseOk(resps[1])
          /\ resps[1].json # NotJson /\ ~Truthy(OptGet(resps[1].json, "id"))) =>
         /\ pc = "failed" /\ ~PostIssued
         /\ result = Rejected(UserResolutionError)

\* C9 witness: GET /me answered without an id, the invocation was rejected and no
\* POST was issued.
C9_Witness ==
  /\ tool = CreatePlaylist
  /\ pc = "failed"
  /\ Len(resps) = 1
  /\ resps[1].json = Obj([id |-> Null])
  /\ result = Rejected(UserResolutionError)

\* The last response answers the handler's own request (not resolveUserId's).
MainAnswered == pc \in {"done", "failed"} /\ Len(resps) >= 1 /\ Len(resps) = Len(reqs)
                /\ ~(tool = CreatePlaylist /\ reqs[Len(reqs)].method = "GET")
LastJson == resps[Len(resps)].json

\* C10 (as claimed): whatever a 2xx JSON response leaves out, nulls or mistypes,
\* the body itself and the elements of items included, the handler completes,
\* and an id that is absent or null comes out as the empty string.
C10_AnyJsonIsMapped ==
  (MainAnswered /\ ResponseOk(resps[Len(resps)]) /\ LastJson # NotJson) =>
     /\ pc = "done"
     /\ result.status = "fulfilled"
     /\ (tool \in {GetMe, CreatePlaylist} /\ IsNullish(OptGet(LastJson, "id"))) =>
          result.value.id = Str("")

(***************************************************************************)
(* SpecValidate: the create-playlist tool called with every shape of input. *)
(***************************************************************************)
TokenEnv == [SPOTIFY_ACCESS_TOKEN |-> Str("envtok")]

FlagValues == {Undef, Bool(TRUE), Bool(FALSE), Str("true")}

CreateInputsFull ==
  {CreateInput(u, n, d, p, c, k) :
     u \in {Undef, Str(""), Str("u1"), Num(5)},
     n \in {Undef, Str(""), Str("x"), Str(Rep("n", NameMaxLen)), Str(Rep("n", NameMaxLen + 1)),
            Num(1)},
     d \in {Undef, Null, Str(Rep("d", DescriptionMaxLen)), Str(Rep("d", DescriptionMaxLen + 1))},
     p \in FlagValues,
     c \in FlagValues,
     k \in {Undef, Null, Bool(FALSE), Bool(TRUE), Str("true"), Num(1)}}

InitValidate == Idle(TokenEnv)

NextValidate ==
  \/ CreateTool(CreatePlaylist, EmptyConfig)
  \/ \E a \in CreateInputsFull : CallTool(a)
  \/ \E r \in JsonResponses(200, {ProfileFull, EmptyObj}) : RespondMe(r)
  \/ \E r \in JsonResponses(201, {PlaylistFull}) : RespondMain(r)
  \/ Return

SpecValidate == InitValidate /\ [][NextValidate]_vars

Validated == tool = CreatePlaylist /\ via = "tool" /\ Started
RejectedByZod == pc = "failed" /\ result.status = "rejected" /\ result.error.name = "ZodError"
HasIssue(path, code) == [path |-> path, code |-> code] \in result.error.issues

\* C2: create-playlist validation rejects every input whose confirm is missing
\* or is not literally true, whatever the other fields hold, and accepts an
\* input only when confirm is literally true.
C2_ConfirmRequired ==
  Validated =>
    /\ args.confirm # Bool(TRUE) =>
         RejectedByZod /\ HasIssue("confirm", "invalid_literal") /\ reqs = <<>>
    /\ ~RejectedByZod => args.confirm = Bool(TRUE)

\* C2 witness: an input whose other fields are all valid was rejected for its
\* confirm field alone.
C2_Witness ==
  /\ Validated
  /\ args = CreateInput(Str("u1"), Str("x"), Undef, Undef, Undef, Bool(FALSE))
  /\ RejectedByZod

BothFlags == args.public = Bool(TRUE) /\ args.collaborative = Bool(TRUE)

\* C3 (as claimed): every input with public = true and collaborative = true is
\* rejected whatever the other fields hold, with the error attached to the
\* collaborative field; an input with at most one of the flags true is not
\* rejected by this rule.
C3_PublicCollaborativeRejected ==
  Validated =>
    /\ BothFlags => RejectedByZod /\ HasIssue("collaborative", "custom")
    /\ ~BothFlags => ~(RejectedByZod /\ HasIssue("collaborative", "custom"))

\* No field of the input has the wrong type (lengths aside).
WellTyped(a) ==
  /\ a.confirm = Bool(TRUE)
  /\ a.name.t = "string"
  /\ a.userId.t \in {"undefined", "string"}
  /\ a.description.t \in {"undefined", "string"}
  /\ a.public.t \in {"undefined", "boolean"}
  /\ a.collaborative.t \in {"undefined", "boolean"}

\* C3 (amended): every input with public = true and collaborative = true is
\* rejected whatever the other fields hold; the error attached to the
\* collaborative field is reported when no field has the wrong type (confirm is
\* true, name is a string, ...), whatever the lengths; an input with at most one
\* of the flags true is not rejected by this rule.
C3_PublicCollaborativeRejectedWellTyped ==
  Validated =>
    /\ BothFlags => RejectedByZod
    /\ (BothFlags /\ WellTyped(args)) => HasIssue("collaborative", "custom")
    /\ ~BothFlags => ~(RejectedByZod /\ HasIssue("collaborative", "custom"))

\* C3 witness: a well-typed input with confirm = true and both flags true was
\* rejected with the issue on collaborative.
C3_Witness ==
  /\ Validated
  /\ args = CreateInput(Undef, Str("x"), Undef, Bool(TRUE), Bool(TRUE), Bool(TRUE))
  /\ RejectedByZod
  /\ result.error.issues = {[path |-> "collaborative", code |-> "custom"]}

(***************************************************************************)
(* SpecToken: get-me executed under every configured and ambient token.     *)
(***************************************************************************)
\* core, with up to MaxPad spaces on either side.
Padded(core) == {Rep(" ", i) \o core \o Rep(" ", j) : i, j \in 0..MaxPad}
Paddings(cores) == UNION {Padded(c) : c \in cores}

TokenConfigs ==
  {Config(a, e, Undef, Undef) :
     a \in {Undef} \cup {Str(x) : x \in Paddings({"", "A", "B C"})},
     e \in {Undef, Str("MY_TOKEN"), Str("UNSET_TOKEN")}}

TokenEnvs ==
  {[SPOTIFY_ACCESS_TOKEN |-> x, MY_TOKEN |-> y] :
     x \in {Undef} \cup {Str(v) : v \in Paddings({"", "S"})},
     y \in {Undef} \cup {Str(v) : v \in Paddings({"", "M"})}}

InitToken == \E e \in TokenEnvs : Idle(e)

NextToken ==
  \/ \E c \in TokenConfigs : Execute(GetMe, EmptyInput, c)
  \/ \E r \in {Response(200, "", ProfileFull), Response(401, "denied", NotJson)} :
       RespondMain(r)
  \/ Return

SpecToken == InitToken /\ [][NextToken]_vars

\* The name of the fallback environment entry of the caller's configuration.
SourceName == IF config.tokenEnvVar = Undef THEN DefaultTokenEnvVar ELSE config.tokenEnvVar.v
SourceValue == EnvLookup(env, SourceName)
Resolved(x) ==
  /\ pc # "failed" \/ resps # <<>>
  /\ token = Str(x)
  /\ x # ""
  /\ Len(reqs) = 1
  /\ reqs[1].authorization = "Bearer " \o x
MissingToken ==
  /\ pc = "failed"
  /\ reqs = <<>>
  /\ result = Rejected(Err("Error", "Missing Spotify access token. Pass accessToken in config or set "
                                    \o SourceName \o "."))

\* C4 (as claimed): a configured accessToken (a non-empty string), trimmed, is
\* the result whatever the environment holds; with none configured the trimmed
\* environment entry is; with neither, resolution fails naming the entry.
C4_ExplicitThenEnv ==
  (Started /\ tool = GetMe) =>
    IF config.accessToken # Undef /\ config.accessToken.v # ""
    THEN Resolved(Trim(config.accessToken.v))
    ELSE IF SourceValue # Undef /\ Trim(SourceValue.v) # "" THEN Resolved(Trim(SourceValue.v))
    ELSE MissingToken

\* C4 (amended): the result is never empty; a configured accessToken whose
\* trimmed value is not empty is the result, trimmed, whatever the environment
\* holds; when accessToken is absent or blank, the environment entry, trimmed,
\* is the result if that is not empty; otherwise resolution fails naming the
\* entry.
C4_NonBlankExplicitThenEnv ==
  (Started /\ tool = GetMe) =>
    IF config.accessToken # Undef /\ Trim(config.accessToken.v) # ""
    THEN Resolved(Trim(config.accessToken.v))
    ELSE IF SourceValue # Undef /\ Trim(SourceValue.v) # "" THEN Resolved(Trim(SourceValue.v))
    ELSE MissingToken

\* C4 witness: the explicit token is only white space, so the entry named by
\* tokenEnvVar was read and its trimmed value became the token.
C4_Witness ==
  /\ tool = GetMe
  /\ pc = "done"
  /\ config.accessToken = Str(" ")
  /\ config.tokenEnvVar = Str("MY_TOKEN")
  /\ env.MY_TOKEN = Str(" M")
  /\ token = Str("M")

(***************************************************************************)
(* SpecPage: search and list over every valid limit and the offsets up to   *)
(* MaxOffset.                                                               *)
(***************************************************************************)
PageLimits == {Num(l) : l \in LimitMin..LimitMax}
PageOffsets == {Num(o) : o \in OffsetMin..MaxOffset}

PageInputs(t) ==
  CASE t = SearchTracks ->
         {SearchInput(Str("q"), l, o, Undef) : l \in PageLimits, o \in PageOffsets}
    [] t = ListMyPlaylists -> {ListInput(l, o) : l \in PageLimits, o \in PageOffsets}
    [] OTHER -> {}

\* The same, with limit or offset left to the schema's default.
PageInputsOpt(t) ==
  CASE t = SearchTracks ->
         {SearchInput(Str("q"), l, o, Undef) :
            l \in PageLimits \cup {Undef}, o \in PageOffsets \cup {Undef}}
    [] t = ListMyPlaylists ->
         {ListInput(l, o) : l \in PageLimits \cup {Undef}, o \in PageOffsets \cup {Undef}}
    [] OTHER -> {}

PageTools == {SearchTracks, ListMyPlaylists}

InitPage == Idle(TokenEnv)

NextPage ==
  \/ \E t \in PageTools : CreateTool(t, EmptyConfig)
  \/ \E a \in PageInputsOpt(tool) : CallTool(a)
  \/ \E t \in PageTools : \E a \in PageInputs(t) : McpExecute(t, a, EmptyConfig)
  \/ \E r \in MainResponses(tool) : RespondMain(r)
  \/ Return

SpecPage == InitPage /\ [][NextPage]_vars

\* The object of the response that carries the page fields.
PageObject == IF tool = SearchTracks THEN OptGet(LastJson, "tracks") ELSE LastJson
Omits(field) == OptGet(PageObject, field) = Undef

\* C6: for a valid limit and offset, when the response omits limit (offset), the
\* output's limit (offset) is that of the request.
C6_PageEcho ==
  (pc = "done" /\ tool \in PageTools) =>
    /\ input.limit.t = "number" /\ input.limit.v \in LimitMin..LimitMax
    /\ input.offset.t = "number" /\ input.offset.v >= OffsetMin
    /\ args.limit # Undef => input.limit = args.limit
    /\ args.offset # Undef => input.offset = args.offset
    /\ Omits("limit") => result.value.limit = input.limit
    /\ Omits("offset") => result.value.offset = input.offset

\* C6 witness: a search with the greatest limit and offset completed against a
\* response that omits both, and the output carries the request's.
C6_Witness ==
  /\ pc = "done"
  /\ tool = SearchTracks
  /\ args.limit = Num(LimitMax)
  /\ args.offset = Num(MaxOffset)
  /\ LastJson = Obj([tracks |-> Obj([total |-> Num(1), items |-> Arr(<<TrackFull>>)])])
  /\ result.value.limit = Num(LimitMax)
  /\ result.value.offset = Num(MaxOffset)

====
